---- MODULE Spec2Model ----
(***************************************************************************)
(* A model of the portfolio backtest engine of fantasy-portfolio-analysis  *)
(* (src/src/backtest.py): the calendar policy get_next_rebalance_date, the *)
(* settings resolver find_portfolio_settings_for_date, the weight          *)
(* validator prepare_tickers_weights, the allocator rebalance_portfolio    *)
(* and the daily loop of backtest_portfolio.                               *)
(*                                                                         *)
(* Dates are proleptic Gregorian ordinals (Python's date.toordinal()); a   *)
(* datetime is a record [day |-> ordinal, tod |-> time of day].  Python's  *)
(* None is the empty sequence <<>> and a present value v is <<v>>.  Money  *)
(* and prices are whole numbers and a weight is a multiple of              *)
(* 1/WeightUnits, so that cash * weight // price is computed exactly.      *)
(*                                                                         *)
(* Nine specifications share the module: SpecCal, SpecAlloc, SpecResolve,  *)
(* SpecValidate and SpecDrawdown call one pure function each on every      *)
(* input of the bounds; Spec runs backtest_portfolio over a few dates,     *)
(* SpecMonthly over a year under a monthly setting, SpecRerun twice on the *)
(* same arguments; SpecCache is a sequence of get_price_data calls on one  *)
(* cache file (src/src/data.py, src/src/utils.py for the drawdown).        *)
(* Each holds the variables of the others at fixed values.  In a run the   *)
(* row price_data.loc[d] is drawn when the run reaches date d: the code    *)
(* reads no row earlier.                                                   *)
(***************************************************************************)
EXTENDS Integers, Sequences, FiniteSets, TLC

VARIABLES
    \* ---- get_next_rebalance_date called on its own
    cal_date,       \* the current_date argument
    cal_freq,       \* the frequency argument
    cal_next,       \* <<>> before the call, then <<result>>
    cal_again,      \* <<>> before the second call, then <<result>>
    cal_pc,
    \* ---- rebalance_portfolio called on its own
    al_value,       \* the portfolio_value argument
    al_prices,      \* the price_row argument
    al_weights,     \* the tickers_weights argument, in iteration order
    al_result,      \* <<>> before the call, then <<[holdings, cash]>>
    al_reordered,   \* the result for the reversed iteration order
    al_pc,
    \* ---- find_portfolio_settings_for_date called on its own
    rs_history,     \* the settings_history argument, in insertion order
    rs_asof,        \* the current_date argument
    rs_result,      \* <<>> (None) or <<setting>>
    rs_pc,
    \* ---- prepare_tickers_weights called on its own
    pv_settings,    \* the settings argument: <<>> (None) or <<setting>>
    pv_result,      \* <<>> before the call, then <<[error, tickers_weights]>>
    pv_pc,
    \* ---- backtest_portfolio
    settings_history,   \* portfolio_config['settings_history']
    all_dates,          \* the trading dates, ascending
    price_row,          \* price_data.loc[d] for the date d the run is at
    price_data,         \* the rows of price_data up to that date, in date order
    pc,                 \* "start", "loop", "done" (returned), "error" (raised)
    day,                \* index into all_dates of the next date of the loop
    daily_values,       \* the values assigned so far, one per processed date
    holdings,
    cash,
    rebalance_count,
    current_frequency,
    next_auto_rebalance_date,   \* <<>> for None
    last_setting_applied,       \* <<>> for None
    forced_rebalance_today,     \* the loop's locals, as the last pass left them
    auto_rebalance_today,
    portfolio_value,
    tickers_weights,
    \* ---- backtest_portfolio called a second time on the same arguments
    run,                \* 1 during the first call, 2 during the second
    first_run,          \* <<>>, then <<what the first call ended with>>
    \* ---- get_price_data and its sqlite cache (src/src/data.py)
    fetches,            \* the rows of table fetches: [ticker, start, end]
    prices,             \* the rows of table prices: [ticker, date, close]
    now,                \* the day datetime.now() falls on; it never goes back
    calls,              \* number of calls made so far
    request,            \* <<>>, then <<[tickers, start_date, end_date]>> of the last call
    missing_tickers,    \* the last call's missing_tickers (the tickers it downloaded)
    fetched,            \* what that download returned: ticker -> column of closes
    cached_data,        \* the last call's cached_data: ticker -> series
    combined_data,      \* the frame the last call returned, date -> row
    gp_pc,              \* "idle", "returned", "raised" (sqlite3.IntegrityError)
    \* ---- compute_max_drawdown called on its own (src/src/utils.py)
    equity_curve,       \* the argument, a sequence of values
    max_dd,             \* <<>> before the call, then <<result>>
    dd_pc

calVars == <<cal_date, cal_freq, cal_next, cal_again, cal_pc>>
allocVars == <<al_value, al_prices, al_weights, al_result, al_reordered, al_pc>>
resolveVars == <<rs_history, rs_asof, rs_result, rs_pc>>
validateVars == <<pv_settings, pv_result, pv_pc>>
cacheVars == <<fetches, prices, now, calls, request, missing_tickers, fetched,
               cached_data, combined_data, gp_pc>>
drawdownVars == <<equity_curve, max_dd, dd_pc>>

inputVars == <<settings_history, all_dates>>
stateVars == <<holdings, cash, rebalance_count, current_frequency,
               next_auto_rebalance_date, last_setting_applied>>
localVars == <<forced_rebalance_today, auto_rebalance_today, portfolio_value,
               tickers_weights>>
rerunVars == <<run, first_run>>
simVars == <<inputVars, price_row, price_data, pc, day, daily_values, stateVars,
             localVars, rerunVars>>

vars == <<calVars, allocVars, resolveVars, validateVars, cacheVars, drawdownVars, simVars>>

(***************************************************************************)
(* Bounds of the model.                                                    *)
(***************************************************************************)
FirstYear == 2023       \* the calendar claims range over FirstYear ..
NumYears == 2           \*   FirstYear + NumYears - 1 (2024 is a leap year)
MaxTod == 1             \* times of day 0 (midnight) .. MaxTod
WeightUnits == 2        \* a weight is k / WeightUnits; 1.0 is WeightUnits
MaxPrice == 2           \* valid prices 1 .. MaxPrice
MaxValue == 7           \* amounts handed to the allocator 0 .. MaxValue
MaxEntries == 3         \* settings-history entries handed to the resolver
NumDays == 3            \* trading dates of a simulated run 1 .. NumDays
MaxGap == 2             \* calendar days between two trading dates 1 .. MaxGap
MaxSettings == 2        \* entries of a simulated run's settings history
InitialCapital == 6     \* the initial_capital of a simulated run
MaxStride == 31         \* calendar days between trading dates of a long run
HorizonDays == 365      \* calendar days a long run spans

(***************************************************************************)
(* datetime.date arithmetic, as the standard library computes it.          *)
(***************************************************************************)
IsLeap(y) == (y % 4 = 0) /\ ((y % 100 # 0) \/ (y % 400 = 0))

DaysInMonth(y, m) ==
    IF m = 2 THEN (IF IsLeap(y) THEN 29 ELSE 28)
    ELSE IF m \in {4, 6, 9, 11} THEN 30 ELSE 31

DaysBeforeYear(y) ==
    LET p == y - 1 IN p * 365 + (p \div 4) - (p \div 100) + (p \div 400)

RECURSIVE DaysBeforeMonth(_, _)
DaysBeforeMonth(y, m) ==
    IF m <= 1 THEN 0 ELSE DaysBeforeMonth(y, m - 1) + DaysInMonth(y, m - 1)

\* date(y, m, d).toordinal()
ToOrdinal(y, m, d) == DaysBeforeYear(y) + DaysBeforeMonth(y, m) + d

YearRange == (FirstYear - 1) .. (FirstYear + NumYears + 2)

\* date.fromordinal(n).year, .month, .day
YearOf(n) ==
    CHOOSE y \in YearRange : DaysBeforeYear(y) < n /\ n <= DaysBeforeYear(y + 1)

MonthOf(n) ==
    LET y == YearOf(n)
    IN  CHOOSE m \in 1..12 :
            /\ ToOrdinal(y, m, 1) <= n
            /\ n < ToOrdinal(y, m, 1) + DaysInMonth(y, m)

DayOf(n) == n - ToOrdinal(YearOf(n), MonthOf(n), 1) + 1

\* date.weekday(): Monday = 0 .. Sunday = 6
Weekday(n) == (n + 6) % 7

\* date(y, m, 1) + relativedelta(months=k), as an ordinal
FirstOfMonthPlus(y, m, k) ==
    LET idx == y * 12 + (m - 1) + k
    IN  ToOrdinal(idx \div 12, (idx % 12) + 1, 1)

\* datetime + timedelta(days=k)
PlusDays(dt, k) == [day |-> dt.day + k, tod |-> dt.tod]

\* datetime.combine(date, time(0, 0))
Midnight(n) == [day |-> n, tod |-> 0]

\* datetime <= datetime, datetime >= datetime
DtLe(a, b) == a.day < b.day \/ (a.day = b.day /\ a.tod <= b.tod)
DtLt(a, b) == a.day < b.day \/ (a.day = b.day /\ a.tod < b.tod)

(***************************************************************************)
(* get_next_rebalance_date, one operator per frequency branch.             *)
(***************************************************************************)
NextDaily(current_date) == PlusDays(current_date, 1)

\* weekly without the skip to the following week on a Friday
NextWeeklyNoSkip(current_date) ==
    PlusDays(current_date, (4 - Weekday(current_date.day)) % 7)

NextWeekly(current_date) ==
    LET wday == Weekday(current_date.day)
        d0 == (4 - wday) % 7
        days_until_friday == IF d0 = 0 THEN 7 ELSE d0
    IN  PlusDays(current_date, days_until_friday)

\* monthly with > in place of >= in the month-end test
NextMonthlyStrict(current_date) ==
    LET year == YearOf(current_date.day)
        month == MonthOf(current_date.day)
        last_day_this_month == FirstOfMonthPlus(year, month, 1) - 1
    IN  IF current_date.day > last_day_this_month
        THEN Midnight(FirstOfMonthPlus(year, month, 2) - 1)
        ELSE Midnight(last_day_this_month)

NextMonthly(current_date) ==
    LET year == YearOf(current_date.day)
        month == MonthOf(current_date.day)
        next_month_first == FirstOfMonthPlus(year, month, 1)
        last_day_this_month == next_month_first - 1
    IN  IF current_date.day >= last_day_this_month
        THEN LET next_month_first_2 == FirstOfMonthPlus(year, month, 2)
                 last_day_next_month == next_month_first_2 - 1
             IN  Midnight(last_day_next_month)
        ELSE Midnight(last_day_this_month)

\* quarterly without the year increment after the fourth quarter
NextQuarterlyNoRollover(current_date) ==
    LET year == YearOf(current_date.day)
        quarter == ((MonthOf(current_date.day) - 1) \div 3) + 1
        quarter_end_date == FirstOfMonthPlus(year, quarter * 3, 1) - 1
    IN  IF current_date.day >= quarter_end_date
        THEN LET nq == quarter + 1
                 next_quarter == IF nq > 4 THEN 1 ELSE nq
             IN  Midnight(FirstOfMonthPlus(year, next_quarter * 3, 1) - 1)
        ELSE Midnight(quarter_end_date)

NextQuarterly(current_date) ==
    LET year == YearOf(current_date.day)
        quarter == ((MonthOf(current_date.day) - 1) \div 3) + 1
        quarter_end_month == quarter * 3
        quarter_end_date == FirstOfMonthPlus(year, quarter_end_month, 1) - 1
    IN  IF current_date.day >= quarter_end_date
        THEN LET nq == quarter + 1
                 next_quarter == IF nq > 4 THEN 1 ELSE nq
                 next_year == IF nq > 4 THEN year + 1 ELSE year
                 next_quarter_end_month == next_quarter * 3
             IN  Midnight(FirstOfMonthPlus(next_year, next_quarter_end_month, 1) - 1)
        ELSE Midnight(quarter_end_date)

\* annually with > in place of >= in the year-end test
NextAnnuallyStrict(current_date) ==
    LET year == YearOf(current_date.day)
        year_end_date == ToOrdinal(year, 12, 31)
    IN  IF current_date.day > year_end_date
        THEN Midnight(ToOrdinal(year + 1, 12, 31))
        ELSE Midnight(year_end_date)

NextAnnually(current_date) ==
    LET year == YearOf(current_date.day)
        year_end_date == ToOrdinal(year, 12, 31)
    IN  IF current_date.day >= year_end_date
        THEN Midnight(ToOrdinal(year + 1, 12, 31))
        ELSE Midnight(year_end_date)

Frequencies == {"none", "daily", "weekly", "monthly", "quarterly", "annually"}

get_next_rebalance_date(current_date, frequency) ==
    CASE frequency = "daily" -> <<NextDaily(current_date)>>
      [] frequency = "weekly" -> <<NextWeekly(current_date)>>
      [] frequency = "monthly" -> <<NextMonthly(current_date)>>
      [] frequency = "quarterly" -> <<NextQuarterly(current_date)>>
      [] frequency = "annually" -> <<NextAnnually(current_date)>>
      [] OTHER -> <<>>

(***************************************************************************)
(* Settings.  A setting is the dict of one settings_history entry: the     *)
(* optional 'auto_rebalance' key (<<>> when absent) and the ticker         *)
(* weights in the dict's iteration order, each [t |-> ticker, w |-> k]     *)
(* for the weight k / WeightUnits.  A history is the dict's items in       *)
(* insertion order, each [key |-> ordinal of the date string, setting].    *)
(***************************************************************************)
Tickers == {"A", "B"}       \* price_data.columns
NaN == 0                    \* a missing price

\* datetime.strptime(date_str, '%Y-%m-%d')
Strptime(key) == Midnight(key)

\* current_day.strftime('%Y-%m-%d')
Strftime(dt) == dt.day

\* settings.get('auto_rebalance', 'none')
GetAutoRebalance(settings) ==
    IF settings.auto_rebalance = <<>> THEN "none" ELSE settings.auto_rebalance[1]

\* the truth value of a dict: false exactly for the empty dict
Truthy(settings) == settings.auto_rebalance # <<>> \/ settings.weights # <<>>

\* date_str in settings_history, settings_history[date_str]
HasKey(history, key) ==
    \E k \in 1..Len(history) : history[k].key = key

Lookup(history, key) ==
    LET k == CHOOSE j \in 1..Len(history) : history[j].key = key
    IN  history[k].setting

(***************************************************************************)
(* find_portfolio_settings_for_date                                        *)
(***************************************************************************)
\* the (d, settings) pairs with d <= current_date, in iteration order
RECURSIVE Applicable(_, _)
Applicable(history, current_date) ==
    IF history = <<>> THEN <<>>
    ELSE LET rest == Applicable(Tail(history), current_date)
             d == Strptime(Head(history).key)
         IN  IF DtLe(d, current_date)
             THEN <<[d |-> d, setting |-> Head(history).setting]>> \o rest
             ELSE rest

\* list.sort(key=lambda x: x[0]): a stable sort by d
RECURSIVE InsertByDate(_, _)
InsertByDate(sorted, e) ==
    IF sorted = <<>> THEN <<e>>
    ELSE IF DtLt(e.d, Head(sorted).d) THEN <<e>> \o sorted
    ELSE <<Head(sorted)>> \o InsertByDate(Tail(sorted), e)

RECURSIVE SortByDate(_)
SortByDate(pairs) ==
    IF pairs = <<>> THEN <<>>
    ELSE InsertByDate(SortByDate(SubSeq(pairs, 1, Len(pairs) - 1)), pairs[Len(pairs)])

\* the resolver without the sort: the last applicable entry in iteration order
FindUnsorted(history, current_date) ==
    LET applicable_dates == Applicable(history, current_date)
    IN  IF applicable_dates = <<>> THEN <<>>
        ELSE <<applicable_dates[Len(applicable_dates)].setting>>

find_portfolio_settings_for_date(history, current_date) ==
    LET applicable_dates == Applicable(history, current_date)
    IN  IF applicable_dates = <<>> THEN <<>>
        ELSE LET sorted == SortByDate(applicable_dates)
             IN  <<sorted[Len(sorted)].setting>>

(***************************************************************************)
(* prepare_tickers_weights: [error |-> the ValueError is raised,           *)
(* tickers_weights |-> the weights returned otherwise].                    *)
(***************************************************************************)
RECURSIVE SumWeights(_)
SumWeights(weights) ==
    IF weights = <<>> THEN 0 ELSE Head(weights).w + SumWeights(Tail(weights))

\* settings.items(): the 'auto_rebalance' item when the key is present, then
\* the ticker items
SettingItems(settings) ==
    (IF settings.auto_rebalance = <<>> THEN <<>>
     ELSE <<[t |-> "auto_rebalance", w |-> settings.auto_rebalance[1]]>>)
        \o settings.weights

\* {k: v for k, v in settings.items() if k != 'auto_rebalance'}
StripFrequency(items) ==
    SelectSeq(items, LAMBDA e : e.t # "auto_rebalance")

\* the test with >= in place of >
ReachesOne(total_weight) == total_weight >= WeightUnits

\* total_weight > 1.0
ExceedsOne(total_weight) == total_weight > WeightUnits

\* the validator without the test
PrepareUnchecked(settings) ==
    IF settings = <<>>
    THEN [error |-> FALSE, tickers_weights |-> <<>>]
    ELSE [error |-> FALSE,
          tickers_weights |-> StripFrequency(SettingItems(settings[1]))]

prepare_tickers_weights(settings) ==
    IF settings = <<>>
    THEN [error |-> FALSE, tickers_weights |-> <<>>]
    ELSE LET weights == StripFrequency(SettingItems(settings[1]))
             total_weight == SumWeights(weights)
         IN  IF ExceedsOne(total_weight)
             THEN [error |-> TRUE, tickers_weights |-> <<>>]
             ELSE [error |-> FALSE, tickers_weights |-> weights]

(***************************************************************************)
(* rebalance_portfolio                                                     *)
(***************************************************************************)
\* one pass of the loop body, with a ceiling in place of the floor division
AllocateRoundUp(acc, entry, row, columns) ==
    IF entry.t \in columns /\ row[entry.t] # NaN
    THEN LET px == row[entry.t]
             shares == (acc.cash * entry.w + WeightUnits * px - 1) \div (WeightUnits * px)
         IN  [holdings |-> [acc.holdings EXCEPT ![entry.t] = shares],
              cash |-> acc.cash - shares * px]
    ELSE acc

\* one pass of the loop body: alloc = cash * weight, shares = alloc // px
Allocate(acc, entry, row, columns) ==
    IF entry.t \in columns /\ row[entry.t] # NaN
    THEN LET px == row[entry.t]
             \* alloc is (cash * w) / WeightUnits, so alloc // px is:
             shares == (acc.cash * entry.w) \div (WeightUnits * px)
             cost == shares * px
         IN  [holdings |-> [acc.holdings EXCEPT ![entry.t] = shares],
              cash |-> acc.cash - cost]
    ELSE acc

RECURSIVE AllocateAll(_, _, _, _)
AllocateAll(acc, weights, row, columns) ==
    IF weights = <<>> THEN acc
    ELSE AllocateAll(Allocate(acc, Head(weights), row, columns),
                     Tail(weights), row, columns)

rebalance_portfolio(value, row, weights, columns) ==
    AllocateAll([holdings |-> [t \in columns |-> 0], cash |-> value],
                weights, row, columns)

(***************************************************************************)
(* SpecCal: the calendar policy called on every date of the range, then    *)
(* called again on the date it returned.                                   *)
(***************************************************************************)
CalDays == ToOrdinal(FirstYear, 1, 1) .. ToOrdinal(FirstYear + NumYears - 1, 12, 31)

CalIdle ==
    /\ cal_date = Midnight(0)
    /\ cal_freq = "none"
    /\ cal_next = <<>>
    /\ cal_again = <<>>
    /\ cal_pc = "idle"

AllocIdle ==
    /\ al_value = 0
    /\ al_prices = <<>>
    /\ al_weights = <<>>
    /\ al_result = <<>>
    /\ al_reordered = <<>>
    /\ al_pc = "idle"

ResolveIdle ==
    /\ rs_history = <<>>
    /\ rs_asof = Midnight(0)
    /\ rs_result = <<>>
    /\ rs_pc = "idle"

ValidateIdle ==
    /\ pv_settings = <<>>
    /\ pv_result = <<>>
    /\ pv_pc = "idle"

CacheIdle ==
    /\ fetches = {}
    /\ prices = {}
    /\ now = 0
    /\ calls = 0
    /\ request = <<>>
    /\ missing_tickers = <<>>
    /\ fetched = <<>>
    /\ cached_data = <<>>
    /\ combined_data = <<>>
    /\ gp_pc = "idle"

DrawdownIdle ==
    /\ equity_curve = <<>>
    /\ max_dd = <<>>
    /\ dd_pc = "idle"

SimIdle ==
    /\ settings_history = <<>>
    /\ all_dates = <<>>
    /\ price_row = <<>>
    /\ price_data = <<>>
    /\ run = 0
    /\ first_run = <<>>
    /\ pc = "idle"
    /\ day = 0
    /\ daily_values = <<>>
    /\ holdings = <<>>
    /\ cash = 0
    /\ rebalance_count = 0
    /\ current_frequency = "none"
    /\ next_auto_rebalance_date = <<>>
    /\ last_setting_applied = <<>>
    /\ forced_rebalance_today = FALSE
    /\ auto_rebalance_today = FALSE
    /\ portfolio_value = 0
    /\ tickers_weights = <<>>

CalInit ==
    /\ AllocIdle /\ ResolveIdle /\ ValidateIdle /\ CacheIdle /\ DrawdownIdle /\ SimIdle
    /\ cal_date \in [day : CalDays, tod : 0..MaxTod]
    /\ cal_freq \in Frequencies
    /\ cal_next = <<>>
    /\ cal_again = <<>>
    /\ cal_pc = "call"

CalFirst ==
    /\ cal_pc = "call"
    /\ cal_next' = get_next_rebalance_date(cal_date, cal_freq)
    /\ cal_pc' = "called"
    /\ UNCHANGED <<cal_date, cal_freq, cal_again, allocVars, resolveVars, simVars, validateVars, cacheVars, drawdownVars>>

CalAgain ==
    /\ cal_pc = "called"
    /\ cal_next # <<>>
    /\ cal_again' = get_next_rebalance_date(cal_next[1], cal_freq)
    /\ cal_pc' = "again"
    /\ UNCHANGED <<cal_date, cal_freq, cal_next, allocVars, resolveVars, simVars, validateVars, cacheVars, drawdownVars>>

CalNext == CalFirst \/ CalAgain

SpecCal == CalInit /\ [][CalNext]_vars

(***************************************************************************)
(* SpecAlloc: the allocator called on every amount, price row and weights  *)
(* mapping of the bounds, then on the same mapping iterated in reverse.    *)
(***************************************************************************)
WeightKeys == Tickers \cup {"X"}    \* "X" is weighted but has no price column

DistinctKeys(weights) ==
    \A j, k \in 1..Len(weights) : weights[j].t = weights[k].t => j = k

WeightMappings ==
    {w \in UNION {[1..n -> [t : WeightKeys, w : 0..(WeightUnits + 1)]] : n \in 0..2} :
        DistinctKeys(w)}

PriceRows == [Tickers -> {NaN} \cup 1..MaxPrice]

Reverse(seq) == [k \in 1..Len(seq) |-> seq[Len(seq) + 1 - k]]

AllocInit ==
    /\ CalIdle /\ ResolveIdle /\ ValidateIdle /\ CacheIdle /\ DrawdownIdle /\ SimIdle
    /\ al_value \in 0..MaxValue
    /\ al_prices \in PriceRows
    /\ al_weights \in WeightMappings
    /\ al_result = <<>>
    /\ al_reordered = <<>>
    /\ al_pc = "call"

AllocCall ==
    /\ al_pc = "call"
    /\ al_result' = <<rebalance_portfolio(al_value, al_prices, al_weights, Tickers)>>
    /\ al_pc' = "called"
    /\ UNCHANGED <<al_value, al_prices, al_weights, al_reordered, calVars, resolveVars, simVars, validateVars, cacheVars, drawdownVars>>

AllocCallReordered ==
    /\ al_pc = "called"
    /\ al_reordered' =
           <<rebalance_portfolio(al_value, al_prices, Reverse(al_weights), Tickers)>>
    /\ al_pc' = "both"
    /\ UNCHANGED <<al_value, al_prices, al_weights, al_result, calVars, resolveVars, simVars, validateVars, cacheVars, drawdownVars>>

AllocNext == AllocCall \/ AllocCallReordered

SpecAlloc == AllocInit /\ [][AllocNext]_vars

(***************************************************************************)
(* SpecResolve: the settings resolver called on every history of the       *)
(* bounds (any insertion order) and every as-of date.                      *)
(***************************************************************************)
ResolveFirstDay == ToOrdinal(FirstYear, 12, 30)
ResolveDays == ResolveFirstDay .. (ResolveFirstDay + MaxEntries)

ResolveSettings ==
    { [auto_rebalance |-> <<"none">>, weights |-> <<[t |-> "A", w |-> WeightUnits]>>],
      [auto_rebalance |-> <<"monthly">>, weights |-> <<[t |-> "B", w |-> WeightUnits]>>] }

Histories(days, settings, maxLen) ==
    {h \in UNION {[1..n -> [key : days, setting : settings]] : n \in 0..maxLen} :
        \A j, k \in 1..Len(h) : h[j].key = h[k].key => j = k}

ResolveInit ==
    /\ CalIdle /\ AllocIdle /\ ValidateIdle /\ CacheIdle /\ DrawdownIdle /\ SimIdle
    /\ rs_history \in Histories(ResolveDays, ResolveSettings, MaxEntries)
    /\ rs_asof \in [day : ResolveDays, tod : 0..MaxTod]
    /\ rs_result = <<>>
    /\ rs_pc = "call"

ResolveCall ==
    /\ rs_pc = "call"
    /\ rs_result' = find_portfolio_settings_for_date(rs_history, rs_asof)
    /\ rs_pc' = "called"
    /\ UNCHANGED <<rs_history, rs_asof, calVars, allocVars, simVars, validateVars, cacheVars, drawdownVars>>

ResolveNext == ResolveCall

SpecResolve == ResolveInit /\ [][ResolveNext]_vars

(***************************************************************************)
(* SpecValidate: the weight validator called on None and on every setting  *)
(* of the bounds, with and without an 'auto_rebalance' key.                *)
(***************************************************************************)
ValidateSettings ==
    [auto_rebalance : {<<>>} \cup {<<f>> : f \in Frequencies}, weights : WeightMappings]

ValidateInit ==
    /\ CalIdle /\ AllocIdle /\ ResolveIdle /\ SimIdle /\ CacheIdle /\ DrawdownIdle
    /\ pv_settings \in {<<>>} \cup {<<st>> : st \in ValidateSettings}
    /\ pv_result = <<>>
    /\ pv_pc = "call"

ValidateCall ==
    /\ pv_pc = "call"
    /\ pv_result' = <<prepare_tickers_weights(pv_settings)>>
    /\ pv_pc' = "done"
    /\ UNCHANGED <<pv_settings, calVars, allocVars, resolveVars, simVars, cacheVars, drawdownVars>>

ValidateNext == ValidateCall

SpecValidate == ValidateInit /\ [][ValidateNext]_vars

(***************************************************************************)
(* backtest_portfolio: the initialization on the first trading date, the   *)
(* body of the daily loop, and the return.                                 *)
(***************************************************************************)
\* if initial_settings: a setting was found and it is not the empty dict
InitialRebalance(initial_settings) ==
    initial_settings # <<>> /\ Truthy(initial_settings[1])

\* the initial increment placed outside the if
CountAlways(count, performed) == count + 1

\* rebalance_count += 1, inside the if
CountAfterInitial(count, performed) ==
    IF performed THEN count + 1 ELSE count

\* the first date left unmarked
LastAppliedNever(history, first_day) == <<>>

\* last_setting_applied = first_day_str if it is a key of the history
LastAppliedAtStart(history, first_day) ==
    IF HasKey(history, Strftime(first_day)) THEN <<Strftime(first_day)>> ELSE <<>>

\* the test without last_setting_applied
ForcedEveryKey(history, last_applied, current_day) ==
    HasKey(history, Strftime(current_day))

\* forced_rebalance_today
ForcedToday(history, last_applied, current_day) ==
    /\ HasKey(history, Strftime(current_day))
    /\ last_applied # <<Strftime(current_day)>>

\* a changed frequency left with the date scheduled under the old one
PendingKept(changed, next_date) == next_date

\* next_auto_rebalance_date = None when the frequency changed
PendingDate(changed, next_date) ==
    IF changed THEN <<>> ELSE next_date

\* the test with > in place of >=
AutoTodayStrict(next_date, current_day) ==
    next_date # <<>> /\ DtLt(next_date[1], current_day)

\* a schedule that never fires
AutoNever(next_date, current_day) == FALSE

\* auto_rebalance_today
AutoToday(next_date, current_day) ==
    next_date # <<>> /\ DtLe(next_date[1], current_day)

\* a holding without a price valued at a price of 1
RECURSIVE HeldValueAtPar(_, _, _)
HeldValueAtPar(held, row, symbols) ==
    IF symbols = {} THEN 0
    ELSE LET t == CHOOSE x \in symbols : TRUE
         IN  held[t] * (IF row[t] # NaN THEN row[t] ELSE 1)
                + HeldValueAtPar(held, row, symbols \ {t})

\* portfolio_value at today's close
RECURSIVE HeldValue(_, _, _)
HeldValue(held, row, symbols) ==
    IF symbols = {} THEN 0
    ELSE LET t == CHOOSE x \in symbols : TRUE
             px == row[t]
             s == held[t]
         IN  (IF px # NaN /\ s # 0 THEN s * px ELSE 0)
                + HeldValue(held, row, symbols \ {t})

\* the value without the cash
ValuationWithoutCash(money, held, row) == HeldValue(held, row, Tickers)

Valuation(money, held, row) == money + HeldValue(held, row, Tickers)

\* the value recorded only on a day without a rebalance
RecordUnlessRebalanced(values, value, forced, auto) ==
    IF forced \/ auto THEN values ELSE Append(values, value)

\* daily_values.loc[current_day] = portfolio_value, on every pass
RecordValue(values, value, forced, auto) == Append(values, value)

\* an auto-rebalance that takes the last entry of the history, whatever its date
SettingsLastEntry(forced, new_settings, history, current_day) ==
    IF forced THEN <<new_settings>>
    ELSE IF history = <<>> THEN <<>> ELSE <<history[Len(history)].setting>>

\* an auto-rebalance that keeps to the setting in effect on the first date
SettingsOfFirstDay(forced, new_settings, history, current_day) ==
    IF forced THEN <<new_settings>>
    ELSE find_portfolio_settings_for_date(history, all_dates[1])

\* the setting whose weights a rebalance uses
SettingsToApply(forced, new_settings, history, current_day) ==
    IF forced THEN <<new_settings>>
    ELSE find_portfolio_settings_for_date(history, current_day)

\* one increment per trigger instead of one per day
CountPerTrigger(count, forced, auto) ==
    count + (IF forced THEN 1 ELSE 0) + (IF auto THEN 1 ELSE 0)

\* rebalance_count += 1, once per day with a trigger
CountAfterDay(count, forced, auto) ==
    IF forced \/ auto THEN count + 1 ELSE count

\* a variant that leaves the schedule empty after a rebalance
RescheduleCleared(current_day, frequency) == <<>>

\* Reschedule next auto rebalance if applicable
Reschedule(current_day, frequency) ==
    IF frequency # "none" THEN get_next_rebalance_date(current_day, frequency)
    ELSE <<>>

Initialize ==
    /\ pc = "start"
    /\ LET first_day == all_dates[1]
           initial_settings == find_portfolio_settings_for_date(settings_history, first_day)
           performed == InitialRebalance(initial_settings)
           frequency == IF performed THEN GetAutoRebalance(initial_settings[1])
                        ELSE current_frequency
           prepared == prepare_tickers_weights(initial_settings)
           rebalanced == rebalance_portfolio(cash, price_row, prepared.tickers_weights,
                                             Tickers)
       IN  IF performed /\ prepared.error
           THEN /\ pc' = "error"
                /\ current_frequency' = frequency
                /\ UNCHANGED <<holdings, cash, rebalance_count, tickers_weights,
                               next_auto_rebalance_date, last_setting_applied>>
           ELSE /\ pc' = "loop"
                /\ current_frequency' = frequency
                /\ holdings' = IF performed THEN rebalanced.holdings ELSE holdings
                /\ cash' = IF performed THEN rebalanced.cash ELSE cash
                /\ tickers_weights' =
                       IF performed THEN prepared.tickers_weights ELSE tickers_weights
                /\ next_auto_rebalance_date' =
                       IF performed THEN get_next_rebalance_date(first_day, frequency)
                       ELSE next_auto_rebalance_date
                /\ rebalance_count' = CountAfterInitial(rebalance_count, performed)
                /\ last_setting_applied' = LastAppliedAtStart(settings_history, first_day)
    /\ day' = 1
    /\ UNCHANGED <<inputVars, price_row, price_data, daily_values, forced_rebalance_today,
                   auto_rebalance_today, portfolio_value>>
    /\ UNCHANGED <<calVars, allocVars, resolveVars, validateVars, cacheVars, drawdownVars, rerunVars>>

ProcessDay(rows) ==
    /\ pc = "loop"
    /\ day <= Len(all_dates)
    /\ LET current_day == all_dates[day]
           current_day_str == Strftime(current_day)
           forced == ForcedToday(settings_history, last_setting_applied, current_day)
           new_settings == Lookup(settings_history, current_day_str)
           changed == forced /\ GetAutoRebalance(new_settings) # current_frequency
           frequency == IF changed THEN GetAutoRebalance(new_settings)
                        ELSE current_frequency
           next_date == PendingDate(changed, next_auto_rebalance_date)
           auto == AutoToday(next_date, current_day)
           value == Valuation(cash, holdings, price_row)
           prepared == prepare_tickers_weights(
                           SettingsToApply(forced, new_settings, settings_history,
                                           current_day))
           rebalanced == rebalance_portfolio(value, price_row, prepared.tickers_weights,
                                             Tickers)
       IN  /\ forced_rebalance_today' = forced
           /\ auto_rebalance_today' = auto
           /\ last_setting_applied' =
                  IF forced THEN <<current_day_str>> ELSE last_setting_applied
           /\ current_frequency' = frequency
           /\ portfolio_value' = value
           /\ daily_values' = RecordValue(daily_values, value, forced, auto)
           /\ IF (forced \/ auto) /\ prepared.error
              THEN /\ pc' = "error"
                   /\ next_auto_rebalance_date' = next_date
                   /\ UNCHANGED <<holdings, cash, rebalance_count, tickers_weights,
                                  day, price_row, price_data>>
              ELSE /\ pc' = "loop"
                   /\ holdings' = IF forced \/ auto THEN rebalanced.holdings ELSE holdings
                   /\ cash' = IF forced \/ auto THEN rebalanced.cash ELSE cash
                   /\ tickers_weights' =
                          IF forced \/ auto THEN prepared.tickers_weights
                          ELSE tickers_weights
                   /\ rebalance_count' = CountAfterDay(rebalance_count, forced, auto)
                   /\ next_auto_rebalance_date' =
                          IF forced \/ auto THEN Reschedule(current_day, frequency)
                          ELSE next_date
                   /\ day' = day + 1
                   /\ IF day < Len(all_dates)
                      THEN /\ price_row' \in rows
                           /\ price_data' = Append(price_data, price_row')
                      ELSE UNCHANGED <<price_row, price_data>>
    /\ UNCHANGED inputVars
    /\ UNCHANGED <<calVars, allocVars, resolveVars, validateVars, cacheVars, drawdownVars, rerunVars>>

Return ==
    /\ pc = "loop"
    /\ day > Len(all_dates)
    /\ pc' = "done"
    /\ UNCHANGED <<inputVars, price_row, price_data, day, daily_values, stateVars,
                   localVars>>
    /\ UNCHANGED <<calVars, allocVars, resolveVars, validateVars, cacheVars, drawdownVars, rerunVars>>

(***************************************************************************)
(* Spec: runs of backtest_portfolio over the last days of FirstYear, where *)
(* a Friday, a month end, a quarter end and a year end lie close together. *)
(***************************************************************************)
SimStartDay == ToOrdinal(FirstYear, 12, 28)

\* the settings of a simulated history: the empty dict, settings without
\* and with an 'auto_rebalance' key, and one whose weights sum to over 1.0
SimFrequencies == {<<>>, <<"none">>, <<"daily">>, <<"weekly">>, <<"monthly">>}

HalfWeight == WeightUnits \div 2

SimWeights ==
    { <<>>,
      <<[t |-> "A", w |-> WeightUnits]>>,
      <<[t |-> "B", w |-> HalfWeight], [t |-> "A", w |-> HalfWeight]>> }

OverWeight == <<[t |-> "A", w |-> WeightUnits], [t |-> "B", w |-> 1]>>

SimSettings ==
    [auto_rebalance : SimFrequencies, weights : SimWeights]
        \cup {[auto_rebalance |-> <<"daily">>, weights |-> OverWeight]}

SimKeyDays == (SimStartDay - 1) .. (SimStartDay + NumDays - 1)

\* a dict written in date order, as the configurations of the tests are
SimHistories ==
    {h \in Histories(SimKeyDays, SimSettings, MaxSettings) :
        \A j, k \in 1..Len(h) : j < k => h[j].key < h[k].key}

SimDays == SimStartDay .. (SimStartDay + (NumDays - 1) * MaxGap)

DateSequences ==
    {ds \in UNION {[1..n -> {Midnight(d) : d \in SimDays}] : n \in 1..NumDays} :
        /\ ds[1].day = SimStartDay
        /\ \A k \in 1..(Len(ds) - 1) : ds[k + 1].day - ds[k].day \in 1..MaxGap}

SimPriceRows == {row \in PriceRows : row["B"] = 1}

Init ==
    /\ CalIdle /\ AllocIdle /\ ResolveIdle /\ ValidateIdle /\ CacheIdle /\ DrawdownIdle
    /\ settings_history \in SimHistories
    /\ all_dates \in DateSequences
    /\ price_row \in SimPriceRows
    /\ price_data = <<price_row>>
    /\ run = 1
    /\ first_run = <<>>
    /\ pc = "start"
    /\ day = 0
    /\ daily_values = <<>>
    /\ holdings = [t \in Tickers |-> 0]
    /\ cash = InitialCapital
    /\ rebalance_count = 0
    /\ current_frequency = "none"
    /\ next_auto_rebalance_date = <<>>
    /\ last_setting_applied = <<>>
    /\ forced_rebalance_today = FALSE
    /\ auto_rebalance_today = FALSE
    /\ portfolio_value = 0
    /\ tickers_weights = <<>>

Step == ProcessDay(SimPriceRows)

Next == Initialize \/ Step \/ Return

Spec == Init /\ [][Next]_vars

(***************************************************************************)
(* SpecRerun: backtest_portfolio called twice on the same arguments.  The  *)
(* second call starts, as every call does, from the assignments at the     *)
(* head of the function, and reads the rows the first call read.  The runs *)
(* are over consecutive dates and a catalogue of six settings.             *)
(***************************************************************************)
\* a counter that a second call would find as the first call left it
KeptCount(previous) == previous

\* rebalance_count = 0
FreshCount(previous) == 0

RerunPriceRows == {row \in SimPriceRows : row["A"] \in {NaN, MaxPrice}}

\* the empty dict, settings without a cadence, with a daily and a weekly
\* cadence, and one whose weights sum to over 1.0
RerunSettings ==
    { [auto_rebalance |-> <<>>, weights |-> <<>>],
      [auto_rebalance |-> <<>>, weights |-> <<[t |-> "A", w |-> WeightUnits]>>],
      [auto_rebalance |-> <<"none">>,
       weights |-> <<[t |-> "B", w |-> HalfWeight], [t |-> "A", w |-> HalfWeight]>>],
      [auto_rebalance |-> <<"daily">>,
       weights |-> <<[t |-> "B", w |-> HalfWeight], [t |-> "A", w |-> HalfWeight]>>],
      [auto_rebalance |-> <<"weekly">>, weights |-> <<[t |-> "A", w |-> WeightUnits]>>],
      [auto_rebalance |-> <<"daily">>, weights |-> OverWeight] }

RerunHistories ==
    {h \in Histories(SimKeyDays, RerunSettings, MaxSettings) :
        \A j, k \in 1..Len(h) : j < k => h[j].key < h[k].key}

\* consecutive trading dates
RerunDateSequences ==
    {[k \in 1..n |-> Midnight(SimStartDay + k - 1)] : n \in 1..NumDays}

RerunInit ==
    /\ CalIdle /\ AllocIdle /\ ResolveIdle /\ ValidateIdle /\ CacheIdle /\ DrawdownIdle
    /\ settings_history \in RerunHistories
    /\ all_dates \in RerunDateSequences
    /\ price_row \in RerunPriceRows
    /\ price_data = <<price_row>>
    /\ run = 1
    /\ first_run = <<>>
    /\ pc = "start"
    /\ day = 0
    /\ daily_values = <<>>
    /\ holdings = [t \in Tickers |-> 0]
    /\ cash = InitialCapital
    /\ rebalance_count = 0
    /\ current_frequency = "none"
    /\ next_auto_rebalance_date = <<>>
    /\ last_setting_applied = <<>>
    /\ forced_rebalance_today = FALSE
    /\ auto_rebalance_today = FALSE
    /\ portfolio_value = 0
    /\ tickers_weights = <<>>

\* the first call has returned or raised; the caller keeps what it got and
\* calls again with the same portfolio_config, price_data, all_dates and
\* initial_capital
CallAgain ==
    /\ run = 1
    /\ pc \in {"done", "error"}
    /\ run' = 2
    /\ first_run' = <<[outcome |-> pc, daily_values |-> daily_values,
                       rebalance_count |-> rebalance_count,
                       price_data |-> price_data]>>
    /\ pc' = "start"
    /\ day' = 0
    /\ price_row' = price_data[1]
    /\ price_data' = <<price_data[1]>>
    /\ daily_values' = <<>>
    /\ holdings' = [t \in Tickers |-> 0]
    /\ cash' = InitialCapital
    /\ rebalance_count' = FreshCount(rebalance_count)
    /\ current_frequency' = "none"
    /\ next_auto_rebalance_date' = <<>>
    /\ last_setting_applied' = <<>>
    /\ forced_rebalance_today' = FALSE
    /\ auto_rebalance_today' = FALSE
    /\ portfolio_value' = 0
    /\ tickers_weights' = <<>>
    /\ UNCHANGED <<inputVars, calVars, allocVars, resolveVars, validateVars, cacheVars, drawdownVars>>

RerunStep ==
    ProcessDay(IF run = 1 THEN RerunPriceRows
               ELSE {first_run[1].price_data[day + 1]})

RerunNext == Initialize \/ RerunStep \/ Return \/ CallAgain

SpecRerun == RerunInit /\ [][RerunNext]_vars

(***************************************************************************)
(* SpecMonthly: runs of backtest_portfolio over HorizonDays days under one *)
(* monthly setting of two instruments at 0.5/0.5, as test_monthly_rebalance*)
(* configures, dated on the first trading date or on the day before.  The  *)
(* trading dates start on 1 or 31 January and follow each other at gaps    *)
(* that alternate between two strides; prices stay at 1.                   *)
(***************************************************************************)
MonthlyStarts ==
    {ToOrdinal(y, 1, d) : y \in {FirstYear, FirstYear + 1}, d \in {1, 31}}

\* the dates d, d + stride, d + stride + other, d + 2 * stride + other, ...
\* up to last
DatesFrom(d, stride, other, last) ==
    LET Offset(k) == ((k - 1) \div 2) * (stride + other)
                        + (IF (k - 1) % 2 = 1 THEN stride ELSE 0)
        n == Cardinality({k \in 1..(last - d + 1) : d + Offset(k) <= last})
    IN  [k \in 1..n |-> Midnight(d + Offset(k))]

MonthlyDateSequences ==
    {DatesFrom(d, g[1], g[2], d + HorizonDays - 1) :
        d \in MonthlyStarts,
        g \in {p \in (1..MaxStride) \X (1..MaxStride) : p[1] <= p[2]}}

MonthlySetting ==
    [auto_rebalance |-> <<"monthly">>,
     weights |-> <<[t |-> "A", w |-> HalfWeight], [t |-> "B", w |-> HalfWeight]>>]

MonthlyPriceRows == {[t \in Tickers |-> 1]}

MonthlyInit ==
    /\ CalIdle /\ AllocIdle /\ ResolveIdle /\ ValidateIdle /\ CacheIdle /\ DrawdownIdle
    /\ all_dates \in MonthlyDateSequences
    /\ \E before \in 0..1 :
           settings_history =
               <<[key |-> all_dates[1].day - before, setting |-> MonthlySetting]>>
    /\ price_row \in MonthlyPriceRows
    /\ price_data = <<price_row>>
    /\ run = 1
    /\ first_run = <<>>
    /\ pc = "start"
    /\ day = 0
    /\ daily_values = <<>>
    /\ holdings = [t \in Tickers |-> 0]
    /\ cash = InitialCapital
    /\ rebalance_count = 0
    /\ current_frequency = "none"
    /\ next_auto_rebalance_date = <<>>
    /\ last_setting_applied = <<>>
    /\ forced_rebalance_today = FALSE
    /\ auto_rebalance_today = FALSE
    /\ portfolio_value = 0
    /\ tickers_weights = <<>>

MonthlyStep == ProcessDay(MonthlyPriceRows)

MonthlyNext == Initialize \/ MonthlyStep \/ Return

SpecMonthly == MonthlyInit /\ [][MonthlyNext]_vars

(***************************************************************************)
(* get_price_data and the sqlite cache (src/src/data.py).  A timestamp is  *)
(* kept up to order: midnight UTC of day d, the index of a downloaded      *)
(* price, is 2 * d, and midnight in New York of day d, a few hours later,  *)
(* is 2 * d + 1.  A series is a function from days to closes, a download   *)
(* column may hold NaN, a table is the set of its rows.                    *)
(***************************************************************************)
MaxCacheDay == 3    \* requests lie in days 1 .. MaxCacheDay
MaxCalls == 2       \* calls per run of the cache

UTCMidnight(d) == 2 * d
NYMidnight(d) == 2 * d + 1
ToDatetime(stamp) == stamp \div 2

\* if end_date >= yesterday: end_date = yesterday
ClampEnd(end_date, today) ==
    IF end_date >= today - 1 THEN today - 1 ELSE end_date

ReqStartInt(start_date) == NYMidnight(start_date - 1)
ReqEndInt(end_date) == NYMidnight(end_date)

\* SELECT start, end FROM fetches WHERE ticker=? AND start<=? AND end>=?
CoveringFetch(table, ticker, req_start_int, req_end_int) ==
    \E f \in table :
        f.ticker = ticker /\ f.start <= req_start_int /\ f.end >= req_end_int

\* SELECT date, close FROM prices WHERE ticker=? AND date >= ? AND date < ?
CachedRows(table, ticker, req_start_int, req_end_int) ==
    {p \in table : p.ticker = ticker /\ p.date >= req_start_int /\ p.date < req_end_int}

\* a variant that trusts the fetch record alone
CoveredOnly(ftable, ptable, ticker, req_start_int, req_end_int) ==
    CoveringFetch(ftable, ticker, req_start_int, req_end_int)

\* if row is not None: ... if rows: (cached) else: missing
CacheHit(ftable, ptable, ticker, req_start_int, req_end_int) ==
    /\ CoveringFetch(ftable, ticker, req_start_int, req_end_int)
    /\ CachedRows(ptable, ticker, req_start_int, req_end_int) # {}

\* pd.Series(close_vals, index=dates) of the selected rows
SeriesOfRows(rows) ==
    [d \in {ToDatetime(p.date) : p \in rows} |->
        (CHOOSE p \in rows : ToDatetime(p.date) = d).close]

MissingTickers(tickers, ftable, ptable, req_start_int, req_end_int) ==
    SelectSeq(tickers, LAMBDA t : ~CacheHit(ftable, ptable, t, req_start_int, req_end_int))

LoadedFromCache(tickers, ftable, ptable, req_start_int, req_end_int) ==
    LET hit == {t \in {tickers[i] : i \in DOMAIN tickers} :
                    CacheHit(ftable, ptable, t, req_start_int, req_end_int)}
    IN  [t \in hit |-> SeriesOfRows(CachedRows(ptable, t, req_start_int, req_end_int))]

\* data[ticker].dropna()
Dropna(column) == [d \in {x \in DOMAIN column : column[x] # NaN} |-> column[d]]

\* INSERT OR IGNORE INTO prices, once per point of the series
InsertOrIgnore(table, ticker, series) ==
    table \cup {[ticker |-> ticker, date |-> UTCMidnight(d), close |-> series[d]] :
                    d \in {x \in DOMAIN series :
                            \A p \in table : ~(p.ticker = ticker /\ p.date = UTCMidnight(x))}}

\* INSERT INTO fetches fails on UNIQUE(ticker, start, end)
UniqueViolated(table, record) == record \in table

\* one pass of "for ticker in missing_tickers", st = [fetches, prices, cached, raised]
StoreTicker(st, ticker, data, req_start_int, req_end_int) ==
    LET record == [ticker |-> ticker, start |-> req_start_int, end |-> req_end_int]
        ticker_series == Dropna(data[ticker])
    IN  IF st.raised THEN st
        ELSE IF ticker \notin DOMAIN data THEN st
        ELSE IF UniqueViolated(st.fetches, record) THEN [st EXCEPT !.raised = TRUE]
        ELSE [fetches |-> st.fetches \cup {record},
              prices |-> InsertOrIgnore(st.prices, ticker, ticker_series),
              cached |-> [t \in DOMAIN st.cached \cup {ticker} |->
                            IF t = ticker THEN ticker_series ELSE st.cached[t]],
              raised |-> FALSE]

RECURSIVE StoreAll(_, _, _, _, _)
StoreAll(st, missing, data, req_start_int, req_end_int) ==
    IF missing = <<>> THEN st
    ELSE StoreAll(StoreTicker(st, Head(missing), data, req_start_int, req_end_int),
                  Tail(missing), data, req_start_int, req_end_int)

\* pd.concat(series_list, axis=1).sort_index().ffill(), or the empty frame
Combine(tickers, cached) ==
    LET present == {t \in {tickers[i] : i \in DOMAIN tickers} : t \in DOMAIN cached}
        index == UNION {DOMAIN cached[t] : t \in present}
        Filled(t, d) ==
            LET seen == {x \in DOMAIN cached[t] : x <= d}
            IN  IF seen = {} THEN NaN
                ELSE cached[t][CHOOSE x \in seen : \A y \in seen : y <= x]
    IN  [d \in index |-> [t \in present |-> Filled(t, d)]]

(***************************************************************************)
(* SpecCache: calls of get_price_data, one after the other, on the same    *)
(* cache file, which starts empty.  What a download returns is the         *)
(* provider's choice: a column per ticker it knows, NaN where it has no    *)
(* close.                                                                  *)
(***************************************************************************)
CacheDays == 1 .. MaxCacheDay
TickerLists == {<<"A">>, <<"B">>, <<"A", "B">>}
Clock == {MaxCacheDay, MaxCacheDay + 1}

\* yf.download(..., start=start_date, end=end_date): the end is exclusive
Downloads(missing, start_date, end_date) ==
    LET wanted == {missing[i] : i \in DOMAIN missing}
        dates == {d \in CacheDays : start_date <= d /\ d < end_date}
    IN  UNION {[got -> [dates -> {NaN} \cup (1 .. MaxPrice)]] : got \in SUBSET wanted}

CacheInit ==
    /\ CalIdle /\ AllocIdle /\ ResolveIdle /\ ValidateIdle /\ DrawdownIdle /\ SimIdle
    /\ fetches = {}
    /\ prices = {}
    /\ now \in Clock
    /\ calls = 0
    /\ request = <<>>
    /\ missing_tickers = <<>>
    /\ fetched = <<>>
    /\ cached_data = <<>>
    /\ combined_data = <<>>
    /\ gp_pc = "idle"

get_price_data(tickers, start_date, end_date, today, data) ==
    LET clamped == ClampEnd(end_date, today)
        req_start_int == ReqStartInt(start_date)
        req_end_int == ReqEndInt(clamped)
        missing == MissingTickers(tickers, fetches, prices, req_start_int, req_end_int)
        loaded == LoadedFromCache(tickers, fetches, prices, req_start_int, req_end_int)
        st == StoreAll([fetches |-> fetches, prices |-> prices,
                        cached |-> loaded, raised |-> FALSE],
                       missing, data, req_start_int, req_end_int)
    IN  /\ now' = today
        /\ calls' = calls + 1
        /\ request' = <<[tickers |-> tickers, start_date |-> start_date,
                         end_date |-> end_date]>>
        /\ missing_tickers' = missing
        /\ fetched' = data
        /\ fetches' = st.fetches
        /\ prices' = st.prices
        /\ cached_data' = st.cached
        /\ combined_data' = IF st.raised THEN <<>> ELSE Combine(tickers, st.cached)
        /\ gp_pc' = IF st.raised THEN "raised" ELSE "returned"

CacheCall ==
    /\ calls < MaxCalls
    /\ \E tickers \in TickerLists, start_date \in CacheDays, end_date \in CacheDays,
          today \in {n \in Clock : n >= now} :
        /\ start_date <= end_date
        /\ \E data \in Downloads(MissingTickers(tickers, fetches, prices,
                                    ReqStartInt(start_date),
                                    ReqEndInt(ClampEnd(end_date, today))),
                                 start_date, ClampEnd(end_date, today)) :
              get_price_data(tickers, start_date, end_date, today, data)
    /\ UNCHANGED <<calVars, allocVars, resolveVars, validateVars, drawdownVars, simVars>>

CacheNext == CacheCall

SpecCache == CacheInit /\ [][CacheNext]_vars

(***************************************************************************)
(* compute_max_drawdown (src/src/utils.py).  A quotient a / b is kept as   *)
(* the pair [num |-> a, den |-> b], b > 0, and compared by cross           *)
(* multiplication.                                                         *)
(***************************************************************************)
MaxCurveLen == 4    \* points of an equity curve

FracLe(a, b) == a.num * b.den <= b.num * a.den
FracEq(a, b) == a.num * b.den = b.num * a.den

\* a variant with the maximum of the whole series at every point
GlobalMax(curve) ==
    [i \in DOMAIN curve |->
        CHOOSE m \in {curve[j] : j \in DOMAIN curve} :
            \A j \in DOMAIN curve : curve[j] <= m]

\* equity_curve.expanding(min_periods=1).max()
ExpandingMax(curve) ==
    [i \in DOMAIN curve |->
        CHOOSE m \in {curve[j] : j \in 1 .. i} : \A j \in 1 .. i : curve[j] <= m]

\* (equity_curve - peak) / peak, point by point
Drawdown(curve, peak) ==
    [i \in DOMAIN curve |-> [num |-> curve[i] - peak[i], den |-> peak[i]]]

\* drawdown.min()
MinOf(drawdown) ==
    drawdown[CHOOSE i \in DOMAIN drawdown :
                \A j \in DOMAIN drawdown : FracLe(drawdown[i], drawdown[j])]

compute_max_drawdown(curve) ==
    LET peak == ExpandingMax(curve)
        drawdown == Drawdown(curve, peak)
    IN  MinOf(drawdown)

(***************************************************************************)
(* SpecDrawdown: compute_max_drawdown called on every series of positive   *)
(* values of the bounds.  analyze reads series.dropna().iloc[-1] before    *)
(* the call, so the series it passes has at least one point.               *)
(***************************************************************************)
EquityCurves == UNION {[1 .. n -> 1 .. MaxValue] : n \in 1 .. MaxCurveLen}

DrawdownInit ==
    /\ CalIdle /\ AllocIdle /\ ResolveIdle /\ ValidateIdle /\ CacheIdle /\ SimIdle
    /\ equity_curve \in EquityCurves
    /\ max_dd = <<>>
    /\ dd_pc = "call"

DrawdownCall ==
    /\ dd_pc = "call"
    /\ max_dd' = <<compute_max_drawdown(equity_curve)>>
    /\ dd_pc' = "done"
    /\ UNCHANGED <<equity_curve, calVars, allocVars, resolveVars, validateVars, cacheVars, simVars>>

DrawdownNext == DrawdownCall

SpecDrawdown == DrawdownInit /\ [][DrawdownNext]_vars

(***************************************************************************)
(* Calendar claims.                                                        *)
(***************************************************************************)
PeriodFrequencies == {"monthly", "quarterly", "annually"}

IsMonthEnd(n) == MonthOf(n + 1) # MonthOf(n)
IsQuarterEnd(n) == IsMonthEnd(n) /\ MonthOf(n) \in {3, 6, 9, 12}
IsYearEnd(n) == YearOf(n + 1) # YearOf(n)

IsPeriodEnd(frequency, n) ==
    CASE frequency = "monthly" -> IsMonthEnd(n)
      [] frequency = "quarterly" -> IsQuarterEnd(n)
      [] frequency = "annually" -> IsYearEnd(n)

\* the number of the month, quarter or year a day lies in
PeriodIndex(frequency, n) ==
    CASE frequency = "monthly" -> YearOf(n) * 12 + (MonthOf(n) - 1)
      [] frequency = "quarterly" -> YearOf(n) * 4 + ((MonthOf(n) - 1) \div 3)
      [] frequency = "annually" -> YearOf(n)

\* C5: for every date d (any time of day) and every frequency among daily,
\* weekly, monthly, quarterly and annually, the date returned by
\* get_next_rebalance_date(d, f) is strictly later than d.
C5_NextStrictlyLater ==
    (cal_pc # "call" /\ cal_freq # "none")
        => (cal_next # <<>> /\ DtLt(cal_date, cal_next[1]))

\* C5 witness: monthly called on a month-end day at a time after midnight.
C5_Witness ==
    /\ cal_pc = "called"
    /\ cal_freq = "monthly"
    /\ cal_date.tod > 0
    /\ IsMonthEnd(cal_date.day)
    /\ cal_next # <<>>

\* C6: for monthly, quarterly and annually, the policy applied to the date it
\* returned yields a date in the following month, quarter or year, never one
\* in the same period, also across a year boundary.
C6_ForwardProgress ==
    (cal_pc = "again" /\ cal_freq \in PeriodFrequencies)
        => /\ cal_again # <<>>
           /\ PeriodIndex(cal_freq, cal_again[1].day)
                = PeriodIndex(cal_freq, cal_next[1].day) + 1

\* C6 witness: quarterly, the first result is a December 31 and the second
\* lies in the first quarter of the next year.
C6_Witness ==
    /\ cal_pc = "again"
    /\ cal_freq = "quarterly"
    /\ MonthOf(cal_next[1].day) = 12
    /\ MonthOf(cal_again[1].day) = 3
    /\ YearOf(cal_again[1].day) = YearOf(cal_next[1].day) + 1

\* C7: for monthly, quarterly and annually the result is midnight of the
\* earliest period-end calendar day strictly after d's calendar day: it is a
\* period end, it is after d's day, and no period end lies in between.
C7_EarliestPeriodEnd ==
    (cal_pc # "call" /\ cal_freq \in PeriodFrequencies)
        => /\ cal_next # <<>>
           /\ cal_next[1].tod = 0
           /\ cal_next[1].day > cal_date.day
           /\ IsPeriodEnd(cal_freq, cal_next[1].day)
           /\ \A e \in (cal_date.day + 1) .. (cal_next[1].day - 1) :
                  ~IsPeriodEnd(cal_freq, e)

\* C7 witness: monthly on February 28 of a leap year returns February 29.
C7_Witness ==
    /\ cal_pc = "called"
    /\ cal_freq = "monthly"
    /\ IsLeap(YearOf(cal_date.day))
    /\ MonthOf(cal_date.day) = 2
    /\ DayOf(cal_date.day) = 28
    /\ cal_next # <<>>
    /\ cal_next[1].day = cal_date.day + 1

\* C8: for weekly the result is a Friday, 1 to 7 days after d, and exactly
\* d + 7 days when d is itself a Friday.
C8_WeeklyFriday ==
    (cal_pc # "call" /\ cal_freq = "weekly")
        => /\ cal_next # <<>>
           /\ Weekday(cal_next[1].day) = 4
           /\ cal_next[1].day - cal_date.day \in 1..7
           /\ cal_next[1].tod = cal_date.tod
           /\ (Weekday(cal_date.day) = 4 => cal_next[1].day = cal_date.day + 7)

\* C8 witness: weekly called on a Friday returned the Friday of the next week.
C8_Witness ==
    /\ cal_pc = "called"
    /\ cal_freq = "weekly"
    /\ Weekday(cal_date.day) = 4
    /\ cal_next # <<>>
    /\ cal_next[1].day = cal_date.day + 7

(***************************************************************************)
(* Allocator claims.                                                       *)
(***************************************************************************)
\* the weights are valid: each >= 0 (by construction) and their sum <= 1.0
ValidWeights(weights) == SumWeights(weights) <= WeightUnits

\* the entries of a weights mapping that get shares: a column with a price
Priced(weights, row) ==
    {k \in 1..Len(weights) : weights[k].t \in Tickers /\ row[weights[k].t] # NaN}

\* C1: every weighted symbol with a valid price gets exactly
\* floor(total_value * weight / price) shares, total_value being the amount
\* passed to the rebalance, and so holdings and remaining cash are the same
\* for every iteration order of the weights mapping.
C1_SharesFromTotalValue ==
    /\ (al_pc \in {"called", "both"} /\ ValidWeights(al_weights))
        => \A k \in Priced(al_weights, al_prices) :
              al_result[1].holdings[al_weights[k].t]
                = (al_value * al_weights[k].w)
                    \div (WeightUnits * al_prices[al_weights[k].t])
    /\ (al_pc = "both" /\ ValidWeights(al_weights)) => al_reordered = al_result

\* C2: for any total value >= 0, weights each >= 0 with sum <= 1.0 and
\* positive prices, the allocator returns remaining cash >= 0 and a whole,
\* non-negative share count for every symbol.
C2_CashAndSharesNonNegative ==
    (al_pc \in {"called", "both"} /\ ValidWeights(al_weights))
        => /\ al_result[1].cash \in Nat
           /\ \A t \in Tickers : al_result[1].holdings[t] \in Nat

\* C2 witness: weights summing to exactly 1.0 over two priced symbols were
\* allocated, both got shares and cash is left over.
C2_Witness ==
    /\ al_pc = "called"
    /\ SumWeights(al_weights) = WeightUnits
    /\ Cardinality(Priced(al_weights, al_prices)) = 2
    /\ \A t \in Tickers : al_result[1].holdings[t] > 0
    /\ al_result[1].cash > 0

(***************************************************************************)
(* Settings Resolver claims.                                               *)
(***************************************************************************)
\* the entries whose effective date is on or before the as-of date
Qualifying(history, as_of) ==
    {k \in 1..Len(history) : history[k].key <= as_of.day}

\* C9: the resolver returns, among the entries dated on or before the as-of
\* date, the one with the latest date, and None when no entry qualifies; an
\* entry dated after the as-of date is never returned.
C9_LatestQualifyingEntry ==
    rs_pc = "called"
        => LET q == Qualifying(rs_history, rs_asof)
           IN  IF q = {} THEN rs_result = <<>>
               ELSE \E k \in q :
                      /\ \A j \in q : rs_history[j].key <= rs_history[k].key
                      /\ rs_result = <<rs_history[k].setting>>

\* C9 witness: three entries inserted out of date order, the last inserted is
\* not the latest qualifying one, one entry is dated after the as-of date.
C9_Witness ==
    /\ rs_pc = "called"
    /\ Len(rs_history) = 3
    /\ rs_history[3].key < rs_history[1].key
    /\ rs_history[1].key <= rs_asof.day
    /\ rs_history[2].key > rs_asof.day
    /\ rs_history[1].setting # rs_history[3].setting
    /\ rs_result = <<rs_history[1].setting>>

(***************************************************************************)
(* Simulation claims.                                                      *)
(***************************************************************************)
\* the setting effective as of a date: the entry with the latest date among
\* those dated on or before it, <<>> when there is none
Effective(history, as_of) ==
    LET q == Qualifying(history, as_of)
    IN  IF q = {} THEN <<>>
        ELSE LET k == CHOOSE j \in q : \A i \in q : history[i].key <= history[j].key
             IN  <<history[k].setting>>

\* the state right after the initialization, and right after the pass of the
\* loop over the first trading date
AfterInitialization == pc = "loop" /\ day = 1
AfterFirstDay == pc = "loop" /\ day = 2

FirstDay == all_dates[1]

\* Supporting invariant for C2, in the simulation: cash is >= 0 and every
\* holding is a non-negative whole number after the initial allocation and
\* after every later rebalance.
SimCashAndSharesNonNegative ==
    pc \in {"loop", "done"}
        => cash \in Nat /\ \A t \in Tickers : holdings[t] \in Nat

\* C3: on every day of the loop that completes, the rebalance counter
\* increases by exactly 1 when the forced trigger, the auto trigger or both
\* fired and by 0 otherwise; when the forced trigger fired (alone or with the
\* auto trigger) the weights applied are those of the setting dated today.
C3_CounterOncePerTriggerDay ==
    [][(pc = "loop" /\ pc' = "loop" /\ day' = day + 1)
        => /\ rebalance_count' = rebalance_count
                + (IF forced_rebalance_today' \/ auto_rebalance_today' THEN 1 ELSE 0)
           /\ forced_rebalance_today'
                => LET forced_weights ==
                           Lookup(settings_history, all_dates[day].day).weights
                       applied == rebalance_portfolio(portfolio_value', price_row,
                                                      forced_weights, Tickers)
                   IN  /\ tickers_weights' = forced_weights
                       /\ holdings' = applied.holdings
                       /\ cash' = applied.cash]_vars

\* C3 witness: the forced and the auto trigger fired on the same day, after
\* an initial allocation, and the day was counted once.
C3_Witness ==
    /\ pc = "loop"
    /\ day = 3
    /\ forced_rebalance_today
    /\ auto_rebalance_today
    /\ rebalance_count = 2
    /\ Effective(settings_history, FirstDay) # <<>>
    /\ tickers_weights # Effective(settings_history, FirstDay)[1].weights

\* C4 as stated: the initialization counts one rebalance unconditionally, so
\* the counter is >= 1 from the initialization on, also when no setting is
\* effective on or before the first date.
C4_InitialAlwaysCounted ==
    pc \in {"loop", "done"} => rebalance_count >= 1

\* C4 as amended: the initialization counts one rebalance exactly when a
\* non-empty setting is effective on or before the first date (also one with
\* no weights: zero holdings, full cash, counter 1); otherwise the portfolio
\* starts with zero holdings, full cash, no cadence and a counter of 0, and a
\* completed run returns a count >= 1 whenever such a setting was effective.
C4_InitialCountedIffSettingEffective ==
    LET eff == Effective(settings_history, FirstDay)
        found == eff # <<>> /\ Truthy(eff[1])
    IN  /\ AfterInitialization
            => /\ rebalance_count = (IF found THEN 1 ELSE 0)
               /\ (found /\ eff[1].weights = <<>>)
                    => /\ \A t \in Tickers : holdings[t] = 0
                       /\ cash = InitialCapital
               /\ ~found
                    => /\ \A t \in Tickers : holdings[t] = 0
                       /\ cash = InitialCapital
                       /\ current_frequency = "none"
                       /\ next_auto_rebalance_date = <<>>
        /\ (pc = "done" /\ found) => rebalance_count >= 1

\* C4 witness: a history whose only entry is dated after the first date was
\* initialized: nothing is held and nothing is counted.
C4_Witness ==
    /\ AfterInitialization
    /\ Len(settings_history) = 1
    /\ settings_history[1].key > FirstDay.day
    /\ rebalance_count = 0
    /\ cash = InitialCapital

\* C10 as stated: a setting dated exactly the first simulated date is the
\* one used for the initial allocation and is applied exactly once, so the
\* counter is 1 after the first day.
C10_FirstDateSettingCountedOnce ==
    (AfterFirstDay /\ HasKey(settings_history, FirstDay.day))
        => /\ rebalance_count = 1
           /\ tickers_weights = Lookup(settings_history, FirstDay.day).weights

\* C10 as amended: a setting dated exactly the first simulated date is the
\* one used for the initial allocation (not an earlier or later entry) and
\* it triggers no forced rebalance when the loop processes the first date;
\* the counter after the first day is 1 when that setting is non-empty and 0
\* when it is the empty mapping, which the initialization skips.
C10_FirstDateSettingUsedOnce ==
    HasKey(settings_history, FirstDay.day)
        => LET first_setting == Lookup(settings_history, FirstDay.day)
               allocated == rebalance_portfolio(InitialCapital, price_row,
                                                first_setting.weights, Tickers)
           IN  /\ AfterInitialization
                    => /\ tickers_weights = first_setting.weights
                       /\ holdings = allocated.holdings
                       /\ cash = allocated.cash
                       /\ current_frequency = GetAutoRebalance(first_setting)
               /\ AfterFirstDay
                    => /\ ~forced_rebalance_today
                       /\ ~auto_rebalance_today
                       /\ tickers_weights = first_setting.weights
                       /\ rebalance_count = (IF Truthy(first_setting) THEN 1 ELSE 0)

\* C10 witness: the history holds an earlier entry with other weights and an
\* entry dated the first date; the first day has been processed, the counter
\* is 1 and shares are held.
C10_Witness ==
    /\ AfterFirstDay
    /\ Len(settings_history) = 2
    /\ settings_history[1].key < FirstDay.day
    /\ settings_history[2].key = FirstDay.day
    /\ settings_history[1].setting.weights # settings_history[2].setting.weights
    /\ rebalance_count = 1
    /\ \E t \in Tickers : holdings[t] > 0

(***************************************************************************)
(* Weight validator claims.                                                *)
(***************************************************************************)
RECURSIVE TotalOf(_)
TotalOf(weights) ==
    IF weights = <<>> THEN 0 ELSE weights[1].w + TotalOf(Tail(weights))

\* C11: the validator returns the empty mapping for None; for a setting it
\* raises exactly when the ticker weights sum to more than 1.0 and otherwise
\* returns the ticker weights unchanged, in their order and without the
\* 'auto_rebalance' key.  A sum of exactly 1.0 is not more than 1.0.
C11_ValidatorAcceptsUpToOne ==
    pv_pc = "done" =>
        LET result == pv_result[1]
        IN  IF pv_settings = <<>>
            THEN ~result.error /\ result.tickers_weights = <<>>
            ELSE LET given == pv_settings[1].weights
                 IN  /\ result.error <=> TotalOf(given) > WeightUnits
                     /\ ~result.error =>
                            /\ result.tickers_weights = given
                            /\ \A k \in 1..Len(result.tickers_weights) :
                                   result.tickers_weights[k].t # "auto_rebalance"

\* a setting with a frequency key whose weights sum to exactly 1.0, accepted
C11_Witness ==
    /\ pv_pc = "done"
    /\ pv_settings # <<>>
    /\ pv_settings[1].auto_rebalance = <<"monthly">>
    /\ Len(pv_settings[1].weights) = 2
    /\ TotalOf(pv_settings[1].weights) = WeightUnits
    /\ ~pv_result[1].error
    /\ pv_result[1].tickers_weights = pv_settings[1].weights

(***************************************************************************)
(* Valuation claims.  A step of the daily loop is a step that records a    *)
(* value; before it, price_row is the row of the date being processed and  *)
(* price_data holds the rows up to that date.                              *)
(***************************************************************************)
DayProcessed == Len(daily_values') = Len(daily_values) + 1

\* the last price of t that is not missing in the rows read so far
RECURSIVE LastValidPrice(_, _)
LastValidPrice(data, t) ==
    IF data = <<>> THEN NaN
    ELSE IF data[Len(data)][t] # NaN THEN data[Len(data)][t]
    ELSE LastValidPrice(SubSeq(data, 1, Len(data) - 1), t)

WorthAtLastValid(t) == holdings[t] * LastValidPrice(price_data, t)

WorthToday(t) == IF price_row[t] = NaN THEN 0 ELSE holdings[t] * price_row[t]

\* C12 as stated: the value recorded for a day is the cash plus every
\* holding at its price of the day or, when that is missing, at its last
\* valid price.
C12_MissingPriceCarriedForward ==
    [][DayProcessed =>
          portfolio_value' = cash + WorthAtLastValid("A") + WorthAtLastValid("B")]_vars

\* C12: the value recorded for a day is the cash plus shares * price over
\* the holdings that have a price on that day, with the holdings and cash
\* the day began with; a holding whose price is missing on that day adds
\* nothing.
C12_MissingPriceExcluded ==
    [][DayProcessed =>
          /\ portfolio_value' = cash + WorthToday("A") + WorthToday("B")
          /\ daily_values'[Len(daily_values')] = portfolio_value']_vars

\* a day without a rebalance on which the held instrument had no price: the
\* recorded value is the cash alone, below the value of the day before
C12_Witness ==
    /\ pc = "loop"
    /\ day >= 3
    /\ ~forced_rebalance_today /\ ~auto_rebalance_today
    /\ holdings["A"] > 0 /\ holdings["B"] = 0
    /\ price_data[day - 1]["A"] = NaN
    /\ price_data[day - 2]["A"] # NaN
    /\ portfolio_value = cash
    /\ daily_values[day - 1] = cash
    /\ daily_values[day - 2] > cash

(***************************************************************************)
(* Value series claims.                                                    *)
(***************************************************************************)
\* C13: a run that returns has recorded one value for every date of
\* all_dates, in date order (and while it runs, one for every date already
\* processed), whether or not a rebalance fired on the date.
C13_OneValuePerDate ==
    /\ pc = "loop" => Len(daily_values) = day - 1
    /\ pc = "done" => Len(daily_values) = Len(all_dates)
    /\ pc \in {"loop", "done"} /\ day >= 2 =>
           daily_values[day - 1] = portfolio_value

\* a returned run of NumDays dates that rebalanced on its last date
C13_Witness ==
    /\ pc = "done"
    /\ Len(all_dates) = NumDays
    /\ Len(daily_values) = NumDays
    /\ forced_rebalance_today /\ auto_rebalance_today
    /\ rebalance_count = NumDays

(***************************************************************************)
(* Rebalance count claims.                                                 *)
(***************************************************************************)
TradingDays == {all_dates[k].day : k \in 1..Len(all_dates)}

NoAutoRebalance(setting) == setting.auto_rebalance \in {<<>>, <<"none">>}

EmptyMapping(setting) == setting.auto_rebalance = <<>> /\ setting.weights = <<>>

\* a returned run whose history is two settings without auto-rebalance,
\* dated on two different trading dates of the run
TwoSettingsOnTradingDates ==
    /\ pc = "done"
    /\ Len(settings_history) = 2
    /\ settings_history[1].key # settings_history[2].key
    /\ \A k \in 1..2 :
           /\ settings_history[k].key \in TradingDays
           /\ NoAutoRebalance(settings_history[k].setting)

\* C14 as stated: such a run returns a rebalance count of 2.
C14_TwoSettingsTwoRebalances ==
    TwoSettingsOnTradingDates => rebalance_count = 2

\* C14: such a run returns a rebalance count of 2, at any distance between
\* the two dates and whether or not the first is the first simulated date,
\* except that a first setting that is the empty mapping and is dated on
\* the first simulated date is not counted: the count is then 1.
C14_TwoSettingsCountedUnlessEmptyAtStart ==
    TwoSettingsOnTradingDates =>
        rebalance_count =
            IF /\ settings_history[1].key = all_dates[1].day
               /\ EmptyMapping(settings_history[1].setting)
            THEN 1 ELSE 2

\* both settings after the first simulated date, which has no setting
C14_Witness ==
    /\ TwoSettingsOnTradingDates
    /\ Len(all_dates) = 3
    /\ settings_history[1].key = all_dates[2].day
    /\ settings_history[2].key = all_dates[3].day
    /\ settings_history[1].setting.weights # <<>>
    /\ settings_history[2].setting.weights # settings_history[1].setting.weights
    /\ rebalance_count = 2

(***************************************************************************)
(* Monthly schedule claims.                                                *)
(***************************************************************************)
\* the same day of the following month, or that month's last day when the
\* month is shorter
AddMonth(n) ==
    LET y == YearOf(n)
        m == MonthOf(n)
        ny == IF m = 12 THEN y + 1 ELSE y
        nm == IF m = 12 THEN 1 ELSE m + 1
        d == IF DayOf(n) > DaysInMonth(ny, nm) THEN DaysInMonth(ny, nm) ELSE DayOf(n)
    IN  ToOrdinal(ny, nm, d)

LongRunDays == ToOrdinal(FirstYear, 1, 1) .. ToOrdinal(FirstYear + 2, 12, 31)

AMonthAfter == [n \in LongRunDays |-> AddMonth(n)]

LessThanAMonthApart ==
    \A k \in 1..(Len(all_dates) - 1) :
        all_dates[k + 1].day < AMonthAfter[all_dates[k].day]

MonthEnds == {n \in LongRunDays : IsMonthEnd(n)}

\* the month ends M with after < M <= upto
MonthEndsWithin(after, upto) == {M \in MonthEnds : after < M /\ M <= upto}

SingleMonthlySetting ==
    /\ Len(settings_history) = 1
    /\ settings_history[1].setting.auto_rebalance = <<"monthly">>
    /\ settings_history[1].key <= all_dates[1].day

\* C15: under a single monthly setting effective at the first date, with
\* consecutive trading dates less than a month apart, an auto-rebalance
\* fires on a trading date exactly when a month end lies after the previous
\* trading date and on or before this one (the date is the first trading
\* date on or after that month end), and the count after any date is 1 plus
\* the number of month ends after the first date and on or before that
\* date: 12 for a run from 1 January to a last trading date in December
\* before the 31st.
C15_EveryMonthEndOnce ==
    SingleMonthlySetting /\ LessThanAMonthApart /\ pc \in {"loop", "done"} /\ day >= 2 =>
        LET first == all_dates[1].day
            today == all_dates[day - 1].day
            before == IF day = 2 THEN today ELSE all_dates[day - 2].day
        IN  /\ auto_rebalance_today <=> MonthEndsWithin(before, today) # {}
            /\ Cardinality(MonthEndsWithin(before, today)) <= 1
            /\ ~forced_rebalance_today
            /\ rebalance_count = 1 + Cardinality(MonthEndsWithin(first, today))
            /\ pc = "done" /\ MonthOf(first) = 1 /\ DayOf(first) = 1
                  /\ YearOf(today) = YearOf(first) /\ MonthOf(today) = 12
                  /\ DayOf(today) < 31
                  => rebalance_count = 12

\* a returned run from 1 January over daily trading dates that ends on
\* 30 December with 12 rebalances
C15_Witness ==
    /\ SingleMonthlySetting /\ LessThanAMonthApart
    /\ pc = "done"
    /\ DayOf(all_dates[1].day) = 1
    /\ all_dates[2].day - all_dates[1].day = 1
    /\ all_dates[3].day - all_dates[2].day = 1
    /\ MonthOf(all_dates[Len(all_dates)].day) = 12
    /\ DayOf(all_dates[Len(all_dates)].day) = 30
    /\ rebalance_count = 12

(***************************************************************************)
(* Cadence claims.                                                         *)
(***************************************************************************)
\* C16: on the day a forced setting of frequency none replaces a cadence
\* the pending scheduled date is discarded and only the forced rebalance is
\* counted; on that day and on every later day processed while the
\* frequency is none no auto-rebalance fires, no date is scheduled, and the
\* counter moves only on a forced-rebalance day.
C16_NoAutoAfterCadenceDropped ==
    [][DayProcessed /\ current_frequency' = "none" =>
          /\ ~auto_rebalance_today'
          /\ next_auto_rebalance_date' = <<>>
          /\ rebalance_count' # rebalance_count => forced_rebalance_today'
          /\ current_frequency # "none" =>
                 /\ forced_rebalance_today'
                 /\ pc' = "loop" => rebalance_count' = rebalance_count + 1]_vars

\* a daily cadence from the first date, replaced by a setting of frequency
\* none on the second date; the third date has passed without a rebalance
C16_Witness ==
    /\ pc = "loop"
    /\ day = 4
    /\ Len(settings_history) = 2
    /\ settings_history[1].key = all_dates[1].day
    /\ settings_history[1].setting.auto_rebalance = <<"daily">>
    /\ settings_history[2].key = all_dates[2].day
    /\ settings_history[2].setting.auto_rebalance = <<"none">>
    /\ current_frequency = "none"
    /\ next_auto_rebalance_date = <<>>
    /\ ~forced_rebalance_today /\ ~auto_rebalance_today
    /\ rebalance_count = 2

(***************************************************************************)
(* Invalid-weights claims.                                                 *)
(***************************************************************************)
InvalidWeights(setting) == TotalOf(setting.weights) > WeightUnits

\* the setting a step uses for a rebalance, <<>> when the step has none:
\* at the initialization the non-empty setting in effect on the first date;
\* on a day of the loop the setting dated that day when it forces a
\* rebalance, else the setting in effect when an auto-rebalance fires
SettingUsed ==
    IF pc = "start"
    THEN LET eff == Effective(settings_history, FirstDay)
         IN  IF eff # <<>> /\ ~EmptyMapping(eff[1]) THEN eff ELSE <<>>
    ELSE IF pc = "loop" /\ day <= Len(all_dates)
    THEN IF forced_rebalance_today'
         THEN <<Lookup(settings_history, all_dates[day].day)>>
         ELSE IF auto_rebalance_today'
              THEN Effective(settings_history, all_dates[day])
              ELSE <<>>
    ELSE <<>>

UsesInvalidWeights == SettingUsed # <<>> /\ InvalidWeights(SettingUsed[1])

\* C17: a step that uses a setting whose weights sum to more than 1.0 for a
\* rebalance (initial, forced or automatic) ends the run in the error on
\* that day, with no rebalance counted and holdings and cash untouched; the
\* error is raised by no other step; and after the error the run takes no
\* further step, so it never returns a value series or a count.
C17_InvalidWeightsFatal ==
    [][/\ UsesInvalidWeights =>
              /\ pc' = "error"
              /\ day' = IF pc = "start" THEN 1 ELSE day
              /\ UNCHANGED <<rebalance_count, holdings, cash>>
       /\ pc' = "error" => UsesInvalidWeights
       /\ pc # "error"]_vars

\* an auto-rebalance that found invalid weights: the setting is dated on a
\* day that is not a trading date, so that no forced rebalance used it
C17_Witness ==
    /\ pc = "error"
    /\ day >= 2
    /\ auto_rebalance_today /\ ~forced_rebalance_today
    /\ Len(settings_history) = 2
    /\ InvalidWeights(settings_history[2].setting)
    /\ settings_history[2].key \notin TradingDays
    /\ rebalance_count = day - 1
    /\ Len(daily_values) = day

HasInvalidSetting ==
    \E k \in 1..Len(settings_history) : InvalidWeights(settings_history[k].setting)

\* C18 as stated: a run whose history holds a setting with weights summing
\* to more than 1.0 never returns, whatever the date of that setting.
C18_EverySettingValidated ==
    HasInvalidSetting => pc # "done"

\* C18: the weight sum is tested only for a setting that a rebalance uses.
\* A run that ended in the error has an invalid setting dated on or before
\* the day of the error; a run that returned has no invalid setting dated
\* on a trading date, but may hold one that no rebalance used.
C18_OnlyUsedSettingsValidated ==
    /\ pc = "error" =>
           \E k \in 1..Len(settings_history) :
               /\ InvalidWeights(settings_history[k].setting)
               /\ settings_history[k].key <= all_dates[day].day
    /\ pc = "done" =>
           \A k \in 1..Len(settings_history) :
               InvalidWeights(settings_history[k].setting) =>
                   settings_history[k].key \notin TradingDays

\* a returned run of NumDays dates whose history holds an invalid setting,
\* dated after the first date on a day without trading, and no cadence
C18_Witness ==
    /\ pc = "done"
    /\ Len(all_dates) = NumDays
    /\ Len(settings_history) = 2
    /\ InvalidWeights(settings_history[2].setting)
    /\ settings_history[2].key > all_dates[1].day
    /\ settings_history[2].key < all_dates[Len(all_dates)].day
    /\ rebalance_count = 1

(***************************************************************************)
(* Buy-and-hold claims.                                                    *)
(***************************************************************************)
\* one setting without a cadence, in effect on the first date, for which
\* the initial allocation takes place (it is not the empty mapping)
SingleSettingWithoutCadence ==
    /\ Len(settings_history) = 1
    /\ settings_history[1].key <= all_dates[1].day
    /\ NoAutoRebalance(settings_history[1].setting)
    /\ ~EmptyMapping(settings_history[1].setting)

AllHeldPriced(row) == \A t \in Tickers : holdings[t] # 0 => row[t] # NaN

Called == calls' = calls + 1

Requested(r) == {r.tickers[i] : i \in DOMAIN r.tickers}
Downloaded(missing) == {missing[i] : i \in DOMAIN missing}
RequestedStart(r) == ReqStartInt(r.start_date)
RequestedEnd(r, today) == ReqEndInt(ClampEnd(r.end_date, today))
FetchRecord(t, r, today) ==
    [ticker |-> t, start |-> RequestedStart(r), end |-> RequestedEnd(r, today)]

\* the closes of column c are in table after, each as it was in table before
\* or as the download gave it
Stored(t, c, before, after) ==
    \A d \in DOMAIN c :
        c[d] # NaN =>
            \E p \in after :
                /\ p.ticker = t /\ p.date = UTCMidnight(d)
                /\ p \in before \/ p.close = c[d]

C28_FetchRecordInsertedOnce ==
    [][Called =>
        /\ gp_pc' # "raised"
        /\ \A t \in Downloaded(missing_tickers') :
               t \in DOMAIN fetched' => FetchRecord(t, request'[1], now') \notin fetches]_vars

(***************************************************************************)
(* Claims about the drawdown.                                              *)
(***************************************************************************)
\* the largest value of curve up to and including point i
RunningPeak(curve, i) ==
    CHOOSE m \in {curve[j] : j \in 1 .. i} : \A j \in 1 .. i : curve[j] <= m

PointDrawdown(curve, i) ==
    [num |-> curve[i] - RunningPeak(curve, i), den |-> RunningPeak(curve, i)]

NeverFalls(curve) ==
    \A i, j \in DOMAIN curve : i < j => curve[j] >= curve[i]

\* C22: for a series of positive values compute_max_drawdown returns the
\* minimum over all points of (value - running_peak) / running_peak; the
\* result is at most 0, and it is 0 exactly when the series never falls
\* below an earlier value.
C22_MaxDrawdownIsMinimum ==
    dd_pc = "done" =>
        LET result == max_dd[1]
        IN  /\ \E i \in DOMAIN equity_curve :
                FracEq(result, PointDrawdown(equity_curve, i))
            /\ \A i \in DOMAIN equity_curve :
                FracLe(result, PointDrawdown(equity_curve, i))
            /\ result.den > 0 /\ result.num <= 0
            /\ result.num = 0 <=> NeverFalls(equity_curve)

\* a series that falls and later climbs past its old peak: the result is
\* the fall, a proper fraction of the old peak
C22_Witness ==
    /\ dd_pc = "done"
    /\ Len(equity_curve) = MaxCurveLen
    /\ \E i, j, k \in DOMAIN equity_curve :
        /\ i < j /\ j < k
        /\ equity_curve[j] < equity_curve[i]
        /\ equity_curve[k] > equity_curve[i]
    /\ max_dd[1].num < 0
    /\ max_dd[1].num + max_dd[1].den > 0

(***************************************************************************)
(* Claims about the schedule and the triggers of the daily loop.           *)
(***************************************************************************)
\* the date the pass of the loop that a step makes is about
Today == all_dates[day]

\* a pass of the loop that carried out a rebalance
Rebalanced ==
    /\ DayProcessed
    /\ pc' = "loop"
    /\ forced_rebalance_today' \/ auto_rebalance_today'

\* x is the first month end strictly after day n
MonthEndFollowing(x, n) ==
    /\ x > n
    /\ IsMonthEnd(x)
    /\ \A m \in (n + 1) .. (x - 1) : ~IsMonthEnd(m)

\* C23: after every rebalance of the daily loop, forced or automatic, the
\* next scheduled date is next_rebalance_date(today, active frequency) when
\* the active frequency is not none, and null otherwise; a forced change
\* from none to monthly leaves the month end following that day scheduled.
C23_RescheduledAfterEveryRebalance ==
    [][Rebalanced =>
          /\ current_frequency' # "none" =>
                 next_auto_rebalance_date' =
                     get_next_rebalance_date(Today, current_frequency')
          /\ current_frequency' = "none" => next_auto_rebalance_date' = <<>>
          /\ (forced_rebalance_today' /\ current_frequency = "none"
                  /\ current_frequency' = "monthly") =>
                 /\ next_auto_rebalance_date' # <<>>
                 /\ MonthEndFollowing(next_auto_rebalance_date'[1].day, Today.day)]_vars

\* a setting without cadence on the first date and a monthly one on the
\* second: after the second date the end of December is scheduled
C23_Witness ==
    /\ pc = "loop"
    /\ day = 3
    /\ Len(settings_history) = 2
    /\ settings_history[1].key = all_dates[1].day
    /\ settings_history[1].setting.auto_rebalance = <<"none">>
    /\ settings_history[1].setting.weights # <<>>
    /\ settings_history[2].key = all_dates[2].day
    /\ settings_history[2].setting.auto_rebalance = <<"monthly">>
    /\ forced_rebalance_today /\ ~auto_rebalance_today
    /\ current_frequency = "monthly"
    /\ rebalance_count = 2
    /\ next_auto_rebalance_date = <<Midnight(ToOrdinal(YearOf(SimStartDay), 12, 31))>>
    /\ all_dates[2].day < ToOrdinal(YearOf(SimStartDay), 12, 31)

\* the weights of a resolved setting, none for None
WeightsOf(resolved) == IF resolved = <<>> THEN <<>> ELSE resolved[1].weights

\* the entry of the history dated exactly d
EntryDated(history, d) ==
    {history[k].setting : k \in {j \in 1 .. Len(history) : history[j].key = d.day}}

\* C24: on a day where only the auto trigger fires the allocator gets the
\* weights of the latest entry dated on or before that day; on a day where
\* the forced trigger fires it gets the weights of the entry dated that day.
C24_WeightsOfTheDay ==
    [][Rebalanced =>
          /\ (auto_rebalance_today' /\ ~forced_rebalance_today') =>
                 tickers_weights' = WeightsOf(Effective(settings_history, Today))
          /\ forced_rebalance_today' =>
                 \E setting \in EntryDated(settings_history, Today) :
                     tickers_weights' = setting.weights]_vars

\* a daily cadence from the first date and a setting dated on the day
\* between the first and the second trading date: on the second date only
\* the auto trigger fires, and the weights are those of the later setting
C24_Witness ==
    /\ pc = "loop"
    /\ day = 3
    /\ Len(settings_history) = 2
    /\ settings_history[1].key = all_dates[1].day
    /\ settings_history[1].setting.auto_rebalance = <<"daily">>
    /\ settings_history[2].key > all_dates[1].day
    /\ settings_history[2].key < all_dates[2].day
    /\ settings_history[2].setting.weights # settings_history[1].setting.weights
    /\ auto_rebalance_today /\ ~forced_rebalance_today
    /\ tickers_weights = settings_history[2].setting.weights
    /\ tickers_weights # <<>>
    /\ rebalance_count = 2

\* the frequency tag of a resolved setting, none when absent
TagOf(resolved) == IF resolved = <<>> THEN "none" ELSE GetAutoRebalance(resolved[1])

\* C25: at the end of processing every simulated day the active frequency is
\* the frequency tag of the setting the resolver returns for that day, for
\* any history, entries dated off the trading dates or before the first
\* date included.
C25_FrequencyFollowsResolver ==
    [][DayProcessed /\ pc' = "loop" =>
          current_frequency' = TagOf(Effective(settings_history, Today))]_vars

\* the date processed last: the first date right after the initialization
LastProcessed == all_dates[IF day = 1 THEN 1 ELSE day - 1]

CadenceFrequencies == {"daily", "weekly", "monthly", "quarterly", "annually"}

\* C26: after the initialization and at the end of every processed day the
\* next scheduled date is non-null exactly when the active frequency is
\* daily, weekly, monthly, quarterly or annually, and a non-null date is
\* strictly later than the day just processed.
C26_ScheduleMatchesFrequency ==
    (pc \in {"loop", "done"} /\ day >= 1) =>
        /\ next_auto_rebalance_date # <<>> <=> current_frequency \in CadenceFrequencies
        /\ next_auto_rebalance_date # <<>> =>
               /\ DtLt(LastProcessed, next_auto_rebalance_date[1])
               /\ next_auto_rebalance_date[1].day > LastProcessed.day

\* a date that came due on the second trading date, by the auto trigger
\* alone, and was replaced by a later one
C26_Witness ==
    /\ pc = "loop"
    /\ day = 3
    /\ auto_rebalance_today /\ ~forced_rebalance_today
    /\ current_frequency \in CadenceFrequencies
    /\ next_auto_rebalance_date # <<>>
    /\ next_auto_rebalance_date[1].day > all_dates[2].day
    /\ rebalance_count = 2

\* C27: a rebalance destroys no wealth: shares held on a rebalance day in
\* an instrument without a price that day are still held after the
\* rebalance, or their worth (at the last valid price) is part of the
\* amount that was allocated.
C27_RebalanceKeepsUnpricedShares ==
    [][Rebalanced =>
          \A t \in Tickers :
              (holdings[t] > 0 /\ price_row[t] = NaN) =>
                  \/ holdings'[t] >= holdings[t]
                  \/ portfolio_value' >=
                         cash + WorthToday("A") + WorthToday("B") + WorthAtLastValid(t)]_vars

====
